---- MODULE Spec2Model ----
(***************************************************************************)
(* Model of the poster generator (src/src/lib.rs): the text layout engine  *)
(* (measurement, greedy word wrap, ellipsis truncation) and the            *)
(* PosterGenerator driver (element list, depth ordering, render pass,      *)
(* output).                                                                *)
(*                                                                         *)
(* Strings are sequences of one-character strings.  Option<T> values are   *)
(* sequences of length at most one: None is <<>>, Some(v) is <<v>>.        *)
(* Widths are integers (the code uses f32; no claim depends on fractions). *)
(***************************************************************************)
EXTENDS Integers, Sequences, FiniteSets, TLC

VARIABLES
    font,          \* metrics of the font handed to the layout routines
    build,         \* "debug" (overflow checks on) or "release" (wrapping)
    text,          \* layout input: the text
    max_width,     \* layout input: the width budget
    max_lines,     \* layout input: Option<u32>
    pc,            \* layout: "input" | "applied" | "reapplied"; caller: "idle" | "returned"
    result,        \* outcome of the layout routine applied to the inputs
    second,        \* outcome of applying a routine to the first outcome
    generator,     \* the PosterGenerator: width, height, background_color, elements
    call,          \* what the call that just returned gave back and did
    input,         \* arguments of the utility routine applied, or of the caller's
                   \* latest add / clear / set_elements
    output,        \* what that routine returned or drew
    server         \* the HTTP server: its clock, the files of the temporary
                   \* directory, the handler of each request

layoutVars == <<text, max_width, max_lines, result, second>>
generatorVars == <<generator, call>>
utilityVars == <<input, output>>
vars == <<font, build, pc, text, max_width, max_lines, result, second, generator, call,
          input, output, server>>

----------------------------------------------------------------------------
(* Bounds of the model                                                     *)

MaxLen == 5        \* longest input text, in characters
MaxWidth == 6      \* largest max_width tried
MaxLinesCap == 2   \* largest max_lines tried
MaxElements == 3   \* longest element list built

----------------------------------------------------------------------------
(* Option and string helpers                                               *)

None == <<>>
Some(v) == <<v>>
IsSome(o) == Len(o) > 0
Unwrap(o) == o[1]

Chars == {"a", "w", " "}

\* char::is_whitespace on the model's alphabet
IsWhitespace(c) == c = " "

RECURSIVE TextsUpTo(_)
TextsUpTo(n) ==
    IF n = 0 THEN {<<>>}
    ELSE LET shorter == TextsUpTo(n - 1)
         IN  shorter \cup {Append(t, c) : t \in {s \in shorter : Len(s) = n - 1}, c \in Chars}

EndsWith(s, suffix) ==
    /\ Len(s) >= Len(suffix)
    /\ SubSeq(s, Len(s) - Len(suffix) + 1, Len(s)) = suffix

\* str::split_whitespace: the maximal runs of non-whitespace characters
RECURSIVE SplitFrom(_, _, _, _)
SplitFrom(s, i, cur, acc) ==
    IF i > Len(s)
    THEN IF cur = <<>> THEN acc ELSE Append(acc, cur)
    ELSE IF IsWhitespace(s[i])
         THEN SplitFrom(s, i + 1, <<>>, IF cur = <<>> THEN acc ELSE Append(acc, cur))
         ELSE SplitFrom(s, i + 1, Append(cur, s[i]), acc)

split_whitespace(s) == SplitFrom(s, 1, <<>>, <<>>)

\* [String]::join(" ")
RECURSIVE JoinFrom(_, _)
JoinFrom(ls, i) ==
    IF i > Len(ls) THEN <<>>
    ELSE IF i = Len(ls) THEN ls[i]
    ELSE ls[i] \o <<" ">> \o JoinFrom(ls, i + 1)

Join(ls) == JoinFrom(ls, 1)

----------------------------------------------------------------------------
(* Script classifier                                                       *)

\* `c as u32`: the code point of each character of the model's alphabets.
\* Characters outside ASCII are written by their code point name.
CodePoint ==
    ("a" :> 97) @@ ("w" :> 119) @@ (" " :> 32) @@ ("." :> 46) @@
    ("U+05D0" :> 1488) @@ ("U+05FF" :> 1535) @@
    ("U+0600" :> 1536) @@ ("U+0627" :> 1575) @@ ("U+06FF" :> 1791) @@
    ("U+0700" :> 1792) @@ ("U+074F" :> 1871) @@
    ("U+0750" :> 1872) @@ ("U+077F" :> 1919) @@
    ("U+0780" :> 1920) @@ ("U+089F" :> 2207) @@
    ("U+08A0" :> 2208) @@ ("U+08FF" :> 2303) @@
    ("U+0900" :> 2304) @@ ("U+FB4F" :> 64335) @@
    ("U+FB50" :> 64336) @@ ("U+FDFF" :> 65023) @@
    ("U+FE00" :> 65024) @@ ("U+FE6F" :> 65135) @@
    ("U+FE70" :> 65136) @@ ("U+FEFF" :> 65279) @@ ("U+FF00" :> 65280)

\* the characters handed to the classifier: ASCII, a Hebrew letter, and the
\* code points at and next to both ends of every range the classifier tests
ScriptChars == DOMAIN CodePoint \ {"w", "."}

\* every text of at most n characters of an alphabet
TextsOver(chars, n) == UNION {[1..k -> chars] : k \in 0..n}

\* a classifier whose first range starts one code point late
is_rtl_text_open_range(t) ==
    \E i \in 1..Len(t) :
        LET code == CodePoint[t[i]]
        IN  \/ (code > 1536 /\ code <= 1791)
            \/ (code >= 1872 /\ code <= 1919)
            \/ (code >= 2208 /\ code <= 2303)
            \/ (code >= 64336 /\ code <= 65023)
            \/ (code >= 65136 /\ code <= 65279)

\* is_rtl_text: text.chars().any(|c| ...) over five code point ranges
is_rtl_text(t) ==
    \E i \in 1..Len(t) :
        LET code == CodePoint[t[i]]
        IN  \/ (code >= 1536 /\ code <= 1791)        \* 0x0600..0x06FF
            \/ (code >= 1872 /\ code <= 1919)        \* 0x0750..0x077F
            \/ (code >= 2208 /\ code <= 2303)        \* 0x08A0..0x08FF
            \/ (code >= 64336 /\ code <= 65023)      \* 0xFB50..0xFDFF
            \/ (code >= 65136 /\ code <= 65279)      \* 0xFE70..0xFEFF

----------------------------------------------------------------------------
(* Font resolver                                                           *)

\* The font environment of one resolution: `files` are the paths
\* load_font_from_file can read and parse, `matching` the family names for
\* which the font manager's match_family_style answers a typeface,
\* `legacy_default` and `legacy_system` whether legacy_make_typeface of the
\* default and of a new font manager answer one.

FontFiles == <<"UKIJBasma.ttf", "./UKIJBasma.ttf">>

RtlFamilies ==
    <<"UKIJBasma", "UKIJ Basma", "Geeza Pro", "Al Bayan", "Arial Unicode MS", "Baghdad",
      "Nadeem", "DejaVu Sans", "Times New Roman", "Arial", "Helvetica">>

LtrFamilies == <<"SF Pro Text", "Arial", "Helvetica", "Times New Roman">>

\* load_font_from_file
load_font_from_file(font_path, env) ==
    IF font_path \in env.files THEN Some([source |-> "file", name |-> font_path])
    ELSE None

\* font_mgr.match_family_style(family, font_style)
match_family_style(family, env) ==
    IF family \in env.matching THEN Some([source |-> "family", name |-> family])
    ELSE None

\* `for family in font_families`: the first family that matches, if any
RECURSIVE FirstMatching(_, _, _)
FirstMatching(families, k, env) ==
    IF k > Len(families) THEN None
    ELSE IF IsSome(match_family_style(families[k], env))
    THEN match_family_style(families[k], env)
    ELSE FirstMatching(families, k + 1, env)

\* the fallbacks after the priority list
DefaultFont(env) ==
    IF env.legacy_default THEN [source |-> "platform", name |-> "FontMgr::default"]
    ELSE IF env.legacy_system THEN [source |-> "platform", name |-> "FontMgr::new"]
    ELSE [source |-> "builtin", name |-> "Font::default"]

\* a resolver that tries the caller's family before the bundled file
get_font_family_first(t, font_family, env) ==
    IF IsSome(font_family) /\ IsSome(match_family_style(Unwrap(font_family), env))
    THEN Unwrap(match_family_style(Unwrap(font_family), env))
    ELSE IF is_rtl_text(t) /\ IsSome(load_font_from_file(FontFiles[1], env))
    THEN Unwrap(load_font_from_file(FontFiles[1], env))
    ELSE IF is_rtl_text(t) /\ IsSome(load_font_from_file(FontFiles[2], env))
    THEN Unwrap(load_font_from_file(FontFiles[2], env))
    ELSE LET font_families == IF is_rtl_text(t) THEN RtlFamilies ELSE LtrFamilies
         IN  IF IsSome(FirstMatching(font_families, 1, env))
             THEN Unwrap(FirstMatching(font_families, 1, env))
             ELSE DefaultFont(env)

\* get_font_for_text_with_family
get_font_for_text_with_family(t, font_family, env) ==
    IF is_rtl_text(t) /\ IsSome(load_font_from_file(FontFiles[1], env))
    THEN Unwrap(load_font_from_file(FontFiles[1], env))
    ELSE IF is_rtl_text(t) /\ IsSome(load_font_from_file(FontFiles[2], env))
    THEN Unwrap(load_font_from_file(FontFiles[2], env))
    ELSE IF IsSome(font_family) /\ IsSome(match_family_style(Unwrap(font_family), env))
    THEN Unwrap(match_family_style(Unwrap(font_family), env))
    ELSE LET font_families == IF is_rtl_text(t) THEN RtlFamilies ELSE LtrFamilies
         IN  IF IsSome(FirstMatching(font_families, 1, env))
             THEN Unwrap(FirstMatching(font_families, 1, env))
             ELSE DefaultFont(env)

----------------------------------------------------------------------------
(* Text measurement                                                        *)

\* Horizontal advance of each glyph, in width units.
Advance(c) == IF c = "w" THEN 2 ELSE 1

RECURSIVE SumAdvance(_, _)
SumAdvance(s, n) == IF n <= 0 THEN 0 ELSE SumAdvance(s, n - 1) + Advance(s[n])

\* Font metrics the backend may report.  `box` is the width of the font's
\* bounding box, `skip` the number of trailing glyphs whose advance the
\* bounds leave out: a text blob's bounds span the glyph origins and are
\* widened by the font box (skip = 1), with a box as wide as the widest
\* advance or narrower than it; the plain sum of advances (box = 0,
\* skip = 0) is the third metric tried.
Fonts == {[box |-> 0, skip |-> 0], [box |-> 2, skip |-> 1], [box |-> 1, skip |-> 1]}

\* TextBlob::new(text, font).bounds().width() for a non-empty text
BlobWidth(s, f) == f.box + SumAdvance(s, Len(s) - f.skip)

\* measure_text: an empty text has no blob and is measured as one space
measure_text(s, f) ==
    IF Len(s) = 0 THEN BlobWidth(<<" ">>, f) ELSE BlobWidth(s, f)

measure_text_with_font(s, f) ==
    IF Len(s) = 0 THEN BlobWidth(<<" ">>, f) ELSE BlobWidth(s, f)

Ellipsis == <<".", ".", ".">>

\* the font the resolver hands to the text elements of a poster
RenderFont == [box |-> 2, skip |-> 1]

----------------------------------------------------------------------------
(* Ellipsis truncation                                                     *)

\* the `for ch in text.chars()` loop: accept leading characters while the
\* accepted text stays within the budget, stop at the first that does not
RECURSIVE TruncateLoop(_, _, _, _, _)
TruncateLoop(s, i, acc, available_width, f) ==
    IF i > Len(s) THEN acc
    ELSE LET test_text == Append(acc, s[i])
             test_width == measure_text(test_text, f)
         IN  IF test_width <= available_width
             THEN TruncateLoop(s, i + 1, test_text, available_width, f)
             ELSE acc

RECURSIVE TruncateLoopRtl(_, _, _, _, _)
TruncateLoopRtl(s, i, acc, available_width, f) ==
    IF i > Len(s) THEN acc
    ELSE LET test_text == Append(acc, s[i])
             test_width == measure_text_with_font(test_text, f)
         IN  IF test_width <= available_width
             THEN TruncateLoopRtl(s, i + 1, test_text, available_width, f)
             ELSE acc

\* a slip of the fit test: a text exactly as wide as the budget is cut
truncate_strict_fit(s, w, f) ==
    LET ellipsis_width == measure_text(Ellipsis, f)
        text_width == measure_text(s, f)
    IN  IF text_width < w THEN s
        ELSE TruncateLoop(s, 1, <<>>, w - ellipsis_width, f) \o Ellipsis

\* a slip of the budget: the width of the ellipsis is not reserved
truncate_no_reserve(s, w, f) ==
    LET text_width == measure_text(s, f)
    IN  IF text_width <= w THEN s
        ELSE TruncateLoop(s, 1, <<>>, w, f) \o Ellipsis

truncate_with_ellipsis(s, w, f) ==
    LET ellipsis_width == measure_text(Ellipsis, f)
        text_width == measure_text(s, f)
    IN  IF text_width <= w THEN s
        ELSE TruncateLoop(s, 1, <<>>, w - ellipsis_width, f) \o Ellipsis

\* `if is_rtl_text(text) { "..." } else { "..." }`
EllipsisRtl(s) == IF is_rtl_text(s) THEN Ellipsis ELSE Ellipsis

truncate_with_ellipsis_rtl(s, w, f) ==
    LET ellipsis_width == measure_text_with_font(EllipsisRtl(s), f)
        text_width == measure_text_with_font(s, f)
    IN  IF text_width <= w THEN s
        ELSE TruncateLoopRtl(s, 1, <<>>, w - ellipsis_width, f) \o EllipsisRtl(s)

----------------------------------------------------------------------------
(* Greedy word wrap                                                        *)

Builds == {"debug", "release"}

\* `max as usize - 1` with max = 0 overflows: a debug build panics there
SubOverflowPanics(max, b) == max = 0 /\ b = "debug"

\* `lines.len() >= max as usize - 1`; in a release build 0 - 1 wraps to
\* usize::MAX, which no Vec length reaches
ReachedCap(len, max) == IF max = 0 THEN FALSE ELSE len >= max - 1

WrapStart == [lines |-> <<>>, current_line |-> <<>>, stop |-> FALSE, panic |-> FALSE]

\* one iteration of break_text's `for word in words`
BreakStep(st, word, w, f, ml, b) ==
    LET test_line == IF st.current_line = <<>> THEN word
                     ELSE st.current_line \o <<" ">> \o word
        test_width == measure_text(test_line, f)
    IN  IF test_width <= w \/ st.current_line = <<>>
        THEN [st EXCEPT !.current_line = test_line]
        ELSE LET pushed == [st EXCEPT !.lines = Append(st.lines, st.current_line),
                                      !.current_line = word]
             IN  IF ~IsSome(ml) THEN pushed
                 ELSE IF SubOverflowPanics(Unwrap(ml), b)
                      THEN [pushed EXCEPT !.panic = TRUE, !.stop = TRUE]
                      ELSE IF ReachedCap(Len(pushed.lines), Unwrap(ml))
                           THEN [pushed EXCEPT !.stop = TRUE]
                           ELSE pushed

RECURSIVE BreakLoop(_, _, _, _, _, _, _)
BreakLoop(words, i, st, w, f, ml, b) ==
    IF i > Len(words) \/ st.stop THEN st
    ELSE BreakLoop(words, i + 1, BreakStep(st, words[i], w, f, ml, b), w, f, ml, b)

\* the code after break_text's loop: place or drop the pending line
BreakFinish(st, w, f, ml) ==
    IF st.panic THEN [panic |-> TRUE, lines |-> <<>>]
    ELSE IF st.current_line = <<>> THEN [panic |-> FALSE, lines |-> st.lines]
    ELSE IF IsSome(ml) /\ Len(st.lines) >= Unwrap(ml)
         THEN IF st.lines = <<>>
              THEN [panic |-> TRUE, lines |-> <<>>]   \* lines.last_mut().unwrap() on None
              ELSE [panic |-> FALSE,
                    lines |-> [st.lines EXCEPT ![Len(st.lines)] =
                                  truncate_with_ellipsis(st.lines[Len(st.lines)], w, f)]]
         ELSE [panic |-> FALSE, lines |-> Append(st.lines, st.current_line)]

break_text(s, w, f, ml, b) ==
    BreakFinish(BreakLoop(split_whitespace(s), 1, WrapStart, w, f, ml, b), w, f, ml)

\* a slip of the fit test: the word alone is measured, not the tentative line
BreakStepRtl_measures_word(st, word, w, f, ml, b) ==
    LET test_line == IF st.current_line = <<>> THEN word
                     ELSE st.current_line \o <<" ">> \o word
        test_width == measure_text_with_font(word, f)
    IN  IF test_width <= w \/ st.current_line = <<>>
        THEN [st EXCEPT !.current_line = test_line]
        ELSE LET pushed == [st EXCEPT !.lines = Append(st.lines, st.current_line),
                                      !.current_line = word]
             IN  IF ~IsSome(ml) THEN pushed
                 ELSE IF SubOverflowPanics(Unwrap(ml), b)
                      THEN [pushed EXCEPT !.panic = TRUE, !.stop = TRUE]
                      ELSE IF ReachedCap(Len(pushed.lines), Unwrap(ml))
                           THEN [pushed EXCEPT !.stop = TRUE]
                           ELSE pushed

\* one iteration of break_text_rtl's `for word in words`
BreakStepRtl(st, word, w, f, ml, b) ==
    LET test_line == IF st.current_line = <<>> THEN word
                     ELSE st.current_line \o <<" ">> \o word
        test_width == measure_text_with_font(test_line, f)
    IN  IF test_width <= w \/ st.current_line = <<>>
        THEN [st EXCEPT !.current_line = test_line]
        ELSE LET pushed == [st EXCEPT !.lines = Append(st.lines, st.current_line),
                                      !.current_line = word]
             IN  IF ~IsSome(ml) THEN pushed
                 ELSE IF SubOverflowPanics(Unwrap(ml), b)
                      THEN [pushed EXCEPT !.panic = TRUE, !.stop = TRUE]
                      ELSE IF ReachedCap(Len(pushed.lines), Unwrap(ml))
                           THEN [pushed EXCEPT !.stop = TRUE]
                           ELSE pushed

RECURSIVE BreakLoopRtl(_, _, _, _, _, _, _)
BreakLoopRtl(words, i, st, w, f, ml, b) ==
    IF i > Len(words) \/ st.stop THEN st
    ELSE BreakLoopRtl(words, i + 1, BreakStepRtl(st, words[i], w, f, ml, b), w, f, ml, b)

BreakFinishRtl(st, w, f, ml) ==
    IF st.panic THEN [panic |-> TRUE, lines |-> <<>>]
    ELSE IF st.current_line = <<>> THEN [panic |-> FALSE, lines |-> st.lines]
    ELSE IF IsSome(ml) /\ Len(st.lines) >= Unwrap(ml)
         THEN IF st.lines = <<>>
              THEN [panic |-> TRUE, lines |-> <<>>]   \* lines.last_mut().unwrap() on None
              ELSE [panic |-> FALSE,
                    lines |-> [st.lines EXCEPT ![Len(st.lines)] =
                                  truncate_with_ellipsis_rtl(st.lines[Len(st.lines)], w, f)]]
         ELSE [panic |-> FALSE, lines |-> Append(st.lines, st.current_line)]

\* the words of break_text_rtl: either branch of the is_rtl_text test
\* splits at whitespace and keeps the order of the characters
WordsRtl(s) == IF is_rtl_text(s) THEN split_whitespace(s) ELSE split_whitespace(s)

break_text_rtl(s, w, f, ml, b) ==
    BreakFinishRtl(BreakLoopRtl(WordsRtl(s), 1, WrapStart, w, f, ml, b), w, f, ml)

----------------------------------------------------------------------------
(* Element model                                                           *)

\* Image sources of the environment.  For each: whether it is a data URL
\* (starts with "data:image/"), whether a payload follows a comma, whether
\* the payload is standard base64, whether the path can be read, whether
\* the bytes decode as an image.
SourceFacts ==
    ("ok.png" :> [data_url |-> FALSE, payload |-> FALSE, base64 |-> FALSE,
                  readable |-> TRUE, image |-> TRUE]) @@
    ("missing.png" :> [data_url |-> FALSE, payload |-> FALSE, base64 |-> FALSE,
                       readable |-> FALSE, image |-> FALSE]) @@
    ("corrupt.png" :> [data_url |-> FALSE, payload |-> FALSE, base64 |-> FALSE,
                       readable |-> TRUE, image |-> FALSE]) @@
    ("data:image/png;base64,iVBORw==" :> [data_url |-> TRUE, payload |-> TRUE,
                                          base64 |-> TRUE, readable |-> FALSE,
                                          image |-> TRUE]) @@
    ("data:image/png;base64" :> [data_url |-> TRUE, payload |-> FALSE, base64 |-> FALSE,
                                 readable |-> FALSE, image |-> FALSE]) @@
    ("data:image/png;base64,%%%" :> [data_url |-> TRUE, payload |-> TRUE, base64 |-> FALSE,
                                     readable |-> FALSE, image |-> FALSE]) @@
    ("data:image/png;base64,AAAA" :> [data_url |-> TRUE, payload |-> TRUE, base64 |-> TRUE,
                                      readable |-> FALSE, image |-> FALSE])

Sources == DOMAIN SourceFacts

\* load_image: the decoded image, or the error of the failing step
load_image(path) ==
    IF SourceFacts[path].data_url
    THEN IF ~SourceFacts[path].payload                  \* split(',').nth(1)
         THEN [ok |-> FALSE, error |-> "ImageLoadError"]
         ELSE IF ~SourceFacts[path].base64              \* STANDARD.decode(..)?
         THEN [ok |-> FALSE, error |-> "base64::DecodeError"]
         ELSE IF ~SourceFacts[path].image               \* Image::from_encoded
         THEN [ok |-> FALSE, error |-> "ImageLoadError"]
         ELSE [ok |-> TRUE, error |-> "none"]
    ELSE IF ~SourceFacts[path].readable                 \* std::fs::read(path)?
    THEN [ok |-> FALSE, error |-> "io::Error"]
    ELSE IF ~SourceFacts[path].image                    \* Image::from_encoded
    THEN [ok |-> FALSE, error |-> "ImageLoadError"]
    ELSE [ok |-> TRUE, error |-> "none"]

\* scale_image fails only when the surface for the scaled image cannot be made
scale_image(backend) ==
    IF backend.scale THEN [ok |-> TRUE, error |-> "none"]
    ELSE [ok |-> FALSE, error |-> "RenderError"]

BackgroundElement(image) == [type |-> "background", image |-> image]
ImageElement(src, z) == [type |-> "image", src |-> src, z_index |-> z]
\* a TextElement with the serde defaults (align left, padding 0, direction
\* ltr) and none of the optional highlight fields; anchored at x = 0
TextElement(t, mw, ml, z) ==
    [type |-> "text", text |-> t, max_width |-> mw, max_lines |-> ml, z_index |-> z,
     x |-> 0, align |-> "Left", direction |-> "Ltr", prefix |-> None,
     background_color |-> None, padding |-> 0, width |-> None]

\* The elements callers add in this model.
Backgrounds == {BackgroundElement(None), BackgroundElement(Some("ok.png")),
                BackgroundElement(Some("missing.png"))}
Images == {ImageElement("ok.png", None), ImageElement("missing.png", None),
           ImageElement("ok.png", Some(-2000))}
Texts == {TextElement(<<"a", " ", "a">>, None, None, None),
          TextElement(<<"a", " ", "a">>, Some(1), Some(0), Some(1))}

MaxSetLen == 2     \* longest element list handed to set_elements

\* The Vec<Element> lists callers hand to set_elements: one element of each
\* kind, in every order and repetition up to MaxSetLen.
ElementLists ==
    LET pool == {BackgroundElement(None), ImageElement("ok.png", None),
                 TextElement(<<"a", " ", "a">>, None, None, None)}
    IN  UNION {[1..n -> pool] : n \in 0..MaxSetLen}

\* PosterElement::z_index of the three element kinds
z_index(e) ==
    IF e.type = "background" THEN -1000
    ELSE IF IsSome(e.z_index) THEN Unwrap(e.z_index) ELSE 0

Ok(draws) == [status |-> "ok", error |-> "none", draws |-> draws]
Err(error, draws) == [status |-> "err", error |-> error, draws |-> draws]
Panic(draws) == [status |-> "panic", error |-> "none", draws |-> draws]

Draw(i, what, arg) == [elem |-> i, what |-> what, arg |-> arg]

\* BackgroundElement::render: the fill, then the image when it loads
RenderBackground(i, e, backend) ==
    LET fill == <<Draw(i, "fill", <<>>)>>
    IN  IF ~IsSome(e.image) THEN Ok(fill)
        ELSE IF ~load_image(Unwrap(e.image)).ok THEN Ok(fill)    \* if let Ok(img)
        ELSE IF ~scale_image(backend).ok THEN Err(scale_image(backend).error, fill)
        ELSE Ok(Append(fill, Draw(i, "image", <<Unwrap(e.image)>>)))

\* ImageElement::render
RenderImage(i, e, backend) ==
    IF ~load_image(e.src).ok THEN Err(load_image(e.src).error, <<>>)
    ELSE IF ~scale_image(backend).ok THEN Err(scale_image(backend).error, <<>>)
    ELSE Ok(<<Draw(i, "image", <<e.src>>)>>)

\* format!("{}{}", prefix, self.text): the prefix before the text body
full_text(e) == IF IsSome(e.prefix) THEN Unwrap(e.prefix) \o e.text ELSE e.text

\* a resolution that takes the element's direction as given
text_direction_as_set(e) == e.direction

\* the direction TextElement::render resolves before laying the text out
text_direction(e) ==
    IF e.direction = "Rtl" THEN "Rtl"
    ELSE IF is_rtl_text(full_text(e)) THEN "Rtl" ELSE "Ltr"

\* process_rtl_text: the text is kept in its original order
process_rtl_text(t) == t

\* paragraph.layout(1000.0): the width the paragraph is laid out at, which
\* paragraph.max_width() then reports
ParagraphLayoutWidth == 1000

\* Horizontal coordinates are kept doubled (x2 = 2 * x) so that the halves
\* of the centre cases stay integers.  Vertical coordinates are left out.

\* a highlight box whose x-origin ignores the direction
bg_x2_same_in_both_directions(e, bg_width, direction) ==
    IF e.align = "Left" THEN 2 * (e.x - e.padding)
    ELSE IF e.align = "Right" THEN 2 * (e.x - bg_width + e.padding)
    ELSE 2 * e.x - bg_width

\* bg_x of render_with_text_layout, doubled
bg_x2(e, bg_width, direction) ==
    IF e.align = "Left" /\ direction = "Ltr" THEN 2 * (e.x - e.padding)
    ELSE IF e.align = "Right" /\ direction = "Ltr" THEN 2 * (e.x - bg_width + e.padding)
    ELSE IF e.align = "Center" THEN 2 * e.x - bg_width
    ELSE IF e.align = "Left" THEN 2 * (e.x - bg_width + e.padding)     \* (Left, Rtl)
    ELSE 2 * (e.x - e.padding)                                         \* (Right, Rtl)

\* the highlight box drawn behind the text when background_color is set
HighlightBox(e, processed_text, direction, f) ==
    IF ~IsSome(e.background_color) THEN None
    ELSE LET text_width == measure_text_with_font(processed_text, f)
             bg_width == IF IsSome(e.width) THEN Unwrap(e.width)
                         ELSE text_width + e.padding * 2
         IN  Some([text_width |-> text_width, bg_width |-> bg_width,
                   bg_x2 |-> bg_x2(e, bg_width, direction)])

\* draw_text_line_improved: the draw issued for one line, if any.  The
\* paragraph path hands direction, alignment and layout width to the
\* backend; the blob path draws nothing for a text that makes no blob.
draw_text_line_improved(line, x, f, direction, align) ==
    IF direction = "Rtl" /\ is_rtl_text(line)
    THEN <<[path |-> "paragraph", text |-> line, width |-> measure_text_with_font(line, f),
            text_direction |-> "RTL", text_align |-> align,
            layout_width |-> ParagraphLayoutWidth,
            draw_x2 |-> IF align = "Center" THEN 2 * x - ParagraphLayoutWidth ELSE 2 * x]>>
    ELSE IF line = <<>> THEN <<>>
    ELSE LET text_width == measure_text_with_font(line, f)
         IN  <<[path |-> "blob", text |-> line, width |-> text_width,
                text_direction |-> "none", text_align |-> "none", layout_width |-> 0,
                draw_x2 |-> IF align = "Left" THEN 2 * x
                            ELSE IF align = "Right" THEN 2 * (x - text_width)
                            ELSE 2 * x - text_width]>>

RECURSIVE DrawLines(_, _, _, _, _, _)
DrawLines(lines, k, x, f, direction, align) ==
    IF k > Len(lines) THEN <<>>
    ELSE draw_text_line_improved(lines[k], x, f, direction, align)
             \o DrawLines(lines, k + 1, x, f, direction, align)

\* the draws of render_with_text_layout, given the box and the wrapped lines
TextDraws(e, direction, f, box, wrapped) ==
    [panic |-> wrapped.panic, direction |-> direction, box |-> box,
     lines |-> wrapped.lines,
     draws |-> DrawLines(wrapped.lines, 1, e.x, f, direction, e.align)]

\* the lines render_with_text_layout draws: the wrapped text when max_width
\* is set, the single line otherwise
TextLines(e, processed_text, f, b) ==
    IF IsSome(e.max_width)
    THEN break_text_rtl(processed_text, Unwrap(e.max_width), f, e.max_lines, b)
    ELSE [panic |-> FALSE, lines |-> <<processed_text>>]

\* render_with_text_layout after the text is processed: the highlight box,
\* then the lines
LayoutProcessedText(e, processed_text, direction, f, b) ==
    TextDraws(e, direction, f, HighlightBox(e, processed_text, direction, f),
              TextLines(e, processed_text, f, b))

\* render_with_text_layout
render_with_text_layout(e, full, direction, f, b) ==
    LayoutProcessedText(e, IF direction = "Rtl" THEN process_rtl_text(full) ELSE full,
                        direction, f, b)

\* TextElement::render
TextElement_render(e, f, b) ==
    render_with_text_layout(e, full_text(e), text_direction(e), f, b)

\* TextElement::render as the render pass sees it: one entry per line
TextEntries(i, r) ==
    IF r.panic THEN Panic(<<>>)
    ELSE Ok([k \in 1..Len(r.draws) |-> Draw(i, "text", r.draws[k].text)])

RenderText(i, e, f, b) == TextEntries(i, TextElement_render(e, f, b))

\* element.render(canvas), dispatched on the element kind
Render(i, e, backend, f, b) ==
    IF e.type = "background" THEN RenderBackground(i, e, backend)
    ELSE IF e.type = "image" THEN RenderImage(i, e, backend)
    ELSE RenderText(i, e, f, b)

----------------------------------------------------------------------------
(* Geometry and colour utilities                                           *)

Min(a, b) == IF a <= b THEN a ELSE b
Max(a, b) == IF a >= b THEN a ELSE b

\* Radii are kept doubled (r2 = 2 * r), so that width / 2.0 and
\* height / 2.0 are the integers width and height.

\* a clamp that forgets the height
clamp_radius2_width_only(r2, width, height) == Min(r2, width)

\* r.min(width / 2.0).min(height / 2.0), doubled
clamp_radius2(r2, width, height) == Min(Min(r2, width), height)

Single(r2) == [kind |-> "Single", corners |-> <<r2>>]
Multiple(tl2, tr2, br2, bl2) == [kind |-> "Multiple", corners |-> <<tl2, tr2, br2, bl2>>]

\* create_rounded_rect_path: the outline and the doubled radii it is built
\* with, in the order top-left, top-right, bottom-right, bottom-left.  The
\* per-corner outline is the list of its points (doubled coordinates); a
\* corner of radius 0 has no curve.
create_rounded_rect_path(x, y, width, height, radius) ==
    IF radius.kind = "Single"
    THEN LET r == clamp_radius2(radius.corners[1], width, height)
         IN  [verb |-> "add_round_rect", rect |-> <<x, y, x + width, y + height>>,
              radii2 |-> <<r, r, r, r>>, points2 |-> <<>>]
    ELSE LET tl == clamp_radius2(radius.corners[1], width, height)
             tr == clamp_radius2(radius.corners[2], width, height)
             br == clamp_radius2(radius.corners[3], width, height)
             bl == clamp_radius2(radius.corners[4], width, height)
             X == 2 * x
             Y == 2 * y
             W == 2 * width
             H == 2 * height
         IN  [verb |-> "path", rect |-> <<x, y, x + width, y + height>>,
              radii2 |-> <<tl, tr, br, bl>>,
              points2 |->
                  <<<<"move_to", X + tl, Y>>, <<"line_to", X + W - tr, Y>>>>
                  \o (IF tr > 0 THEN <<<<"quad_to", X + W, Y + tr>>>> ELSE <<>>)
                  \o <<<<"line_to", X + W, Y + H - br>>>>
                  \o (IF br > 0 THEN <<<<"quad_to", X + W - br, Y + H>>>> ELSE <<>>)
                  \o <<<<"line_to", X + bl, Y + H>>>>
                  \o (IF bl > 0 THEN <<<<"quad_to", X, Y + H - bl>>>> ELSE <<>>)
                  \o <<<<"line_to", X, Y + tl>>>>
                  \o (IF tl > 0 THEN <<<<"quad_to", X + tl, Y>>>> ELSE <<>>)
                  \o <<<<"close">>>>]

ObjectFits == {"Cover", "Contain", "Stretch"}

\* (a / b).ceil() and (a / b) as i32 for positive a and b
CeilDiv(a, b) == (a + b - 1) \div b
TruncDiv(a, b) == a \div b

\* The drawing scale_image does on the surface of the target size, in exact
\* arithmetic.  The uniform scale is the fraction num/den; the edges of the
\* rectangle the image lands on are given in units of 1/(2*den) pixel, the
\* target box being [0, 2*den*width] x [0, 2*den*height] in these units.

scale_image_draw(src_width, src_height, width, height, object_fit) ==
    IF object_fit = "Cover"
    THEN LET byX == width * src_height >= height * src_width     \* scale_x.max(scale_y)
             num == IF byX THEN width ELSE height
             den == IF byX THEN src_width ELSE src_height
             scaled_width == CeilDiv(src_width * num, den)
             scaled_height == CeilDiv(src_height * num, den)
             x2 == width - scaled_width                           \* 2 * x
             y2 == height - scaled_height
         IN  \* canvas.scale(scale); draw_image at (x / scale, y / scale)
             [num |-> num, den |-> den, surface |-> <<width, height>>,
              left |-> den * x2, top |-> den * y2,
              right |-> den * x2 + 2 * src_width * num,
              bottom |-> den * y2 + 2 * src_height * num]
    ELSE IF object_fit = "Contain"
    THEN LET byX == width * src_height <= height * src_width     \* scale_x.min(scale_y)
             num == IF byX THEN width ELSE height
             den == IF byX THEN src_width ELSE src_height
             scaled_width == TruncDiv(src_width * num, den)
             scaled_height == TruncDiv(src_height * num, den)
             x2 == width - scaled_width
             y2 == height - scaled_height
         IN  \* dest_rect = (x, y, x + scaled_width, y + scaled_height)
             [num |-> num, den |-> den, surface |-> <<width, height>>,
              left |-> den * x2, top |-> den * y2,
              right |-> den * (x2 + 2 * scaled_width),
              bottom |-> den * (y2 + 2 * scaled_height)]
    ELSE \* Stretch: dest_rect = (0, 0, width, height), no uniform scale
         [num |-> 1, den |-> 1, surface |-> <<width, height>>,
          left |-> 0, top |-> 0, right |-> 2 * width, bottom |-> 2 * height]

\* str::len of one character: its UTF-8 length in bytes
Utf8Len(c) == IF c = "U+00E9" THEN 2 ELSE 1

RECURSIVE ByteLen(_)
ByteLen(s) == IF s = <<>> THEN 0 ELSE Utf8Len(Head(s)) + ByteLen(Tail(s))

\* the byte offsets at which a character of s starts, and the end of s
CharBoundaries(s) == {ByteLen(SubSeq(s, 1, k)) : k \in 0..Len(s)}

\* &s[a..b]: the characters between two byte offsets; a panic when an
\* offset falls inside a character
Slice(s, a, b) ==
    IF a \notin CharBoundaries(s) \/ b \notin CharBoundaries(s)
    THEN [panic |-> TRUE, str |-> <<>>]
    ELSE [panic |-> FALSE,
          str |-> SelectSeq([k \in 1..Len(s) |-> <<ByteLen(SubSeq(s, 1, k - 1)), s[k]>>],
                            LAMBDA p : p[1] >= a /\ p[1] < b)]

HexDigits == {"0", "f"}
HexValue(c) == IF c = "f" THEN 15 ELSE 0

\* u8::from_str_radix(s, 16) on a two-byte slice: an optional `+`, then
\* one or more digits; Err otherwise
from_str_radix(p) ==
    LET chars == [k \in 1..Len(p) |-> p[k][2]]
        digits == IF chars # <<>> /\ chars[1] = "+" THEN Tail(chars) ELSE chars
    IN  IF digits = <<>> \/ \E k \in 1..Len(digits) : digits[k] \notin HexDigits
        THEN [ok |-> FALSE, value |-> 0]
        ELSE [ok |-> TRUE,
              value |-> IF Len(digits) = 1 THEN HexValue(digits[1])
                        ELSE 16 * HexValue(digits[1]) + HexValue(digits[2])]

Color(a, r, g, b) == [panic |-> FALSE, a |-> a, r |-> r, g |-> g, b |-> b]
BLACK == Color(255, 0, 0, 0)
ColorPanic == [panic |-> TRUE, a |-> 0, r |-> 0, g |-> 0, b |-> 0]

\* parse_color.  All the slices of a tuple are taken before any is parsed.
parse_color(color_str) ==
    IF color_str = <<>> \/ color_str[1] # "#" THEN BLACK
    ELSE LET hex == Tail(color_str)
             s1 == Slice(hex, 0, 2)
             s2 == Slice(hex, 2, 4)
             s3 == Slice(hex, 4, 6)
             s4 == Slice(hex, 6, 8)
         IN  IF ByteLen(hex) = 6
             THEN IF s1.panic \/ s2.panic \/ s3.panic THEN ColorPanic
                  ELSE LET r == from_str_radix(s1.str)
                           g == from_str_radix(s2.str)
                           b == from_str_radix(s3.str)
                       IN  IF r.ok /\ g.ok /\ b.ok
                           THEN Color(255, r.value, g.value, b.value)    \* from_rgb
                           ELSE BLACK
             ELSE IF ByteLen(hex) = 8
             THEN IF s1.panic \/ s2.panic \/ s3.panic \/ s4.panic THEN ColorPanic
                  ELSE LET r == from_str_radix(s1.str)
                           g == from_str_radix(s2.str)
                           b == from_str_radix(s3.str)
                           a == from_str_radix(s4.str)
                       IN  IF r.ok /\ g.ok /\ b.ok /\ a.ok
                           THEN Color(a.value, r.value, g.value, b.value)  \* from_argb
                           ELSE BLACK
             ELSE BLACK

----------------------------------------------------------------------------
(* Depth ordering                                                          *)

\* insert reference i into an ordered run of references, before the equal keys
RECURSIVE InsertBeforeEqual(_, _, _)
InsertBeforeEqual(es, sorted, i) ==
    IF sorted = <<>> THEN <<i>>
    ELSE IF z_index(es[i]) <= z_index(es[Head(sorted)]) THEN <<i>> \o sorted
    ELSE <<Head(sorted)>> \o InsertBeforeEqual(es, Tail(sorted), i)

\* insert reference i into an ordered run of references, after the equal keys
RECURSIVE InsertAfterEqual(_, _, _)
InsertAfterEqual(es, sorted, i) ==
    IF sorted = <<>> THEN <<i>>
    ELSE IF z_index(es[i]) < z_index(es[Head(sorted)]) THEN <<i>> \o sorted
    ELSE <<Head(sorted)>> \o InsertAfterEqual(es, Tail(sorted), i)

RECURSIVE SortUnstable(_, _)
SortUnstable(es, n) ==
    IF n = 0 THEN <<>> ELSE InsertBeforeEqual(es, SortUnstable(es, n - 1), n)

RECURSIVE SortStable(_, _)
SortStable(es, n) ==
    IF n = 0 THEN <<>> ELSE InsertAfterEqual(es, SortStable(es, n - 1), n)

\* a sort that does not keep the order of equal keys
sorted_elements_unstable(es) == SortUnstable(es, Len(es))

\* self.elements.iter().collect() then sort_by_key(|e| e.z_index()): the
\* references (positions in the element list) in stable key order
sorted_elements(es) == SortStable(es, Len(es))

----------------------------------------------------------------------------
(* PosterGenerator                                                         *)

\* What the rendering backend and the file system answer during one call:
\* whether the surface is allocated, the surface of a scaled image is
\* allocated, the PNG encoder succeeds, the output file can be written.
\* A call stops at its first failure, so one failing answer at a time
\* covers every combination.
Backends ==
    {bk \in [surface : BOOLEAN, scale : BOOLEAN, encode : BOOLEAN, write : BOOLEAN] :
        Cardinality({k \in {"surface", "scale", "encode", "write"} : ~bk[k]}) <= 1}

\* PosterGenerator::new
new(width, height, background_color) ==
    [width |-> width, height |-> height, background_color |-> background_color,
     elements |-> <<>>]

\* self.elements.push(Box::new(element))
push(g, element) == [g EXCEPT !.elements = Append(@, element)]

RECURSIVE PushAll(_, _, _)
PushAll(g, elements, k) ==
    IF k > Len(elements) THEN g ELSE PushAll(push(g, elements[k]), elements, k + 1)

\* a replacement that keeps the elements added earlier
set_elements_keeps_earlier(g, elements) == PushAll(g, elements, 1)

\* PosterGenerator::set_elements: clear, then one add per element, in order
set_elements(g, elements) == PushAll([g EXCEPT !.elements = <<>>], elements, 1)

\* the `for element in sorted_elements { element.render(canvas)?; }` loop
RECURSIVE RenderLoop(_, _, _, _, _, _, _)
RenderLoop(es, order, k, acc, backend, f, b) ==
    IF k > Len(order) \/ acc.status # "ok" THEN acc
    ELSE LET r == Render(order[k], es[order[k]], backend, f, b)
         IN  RenderLoop(es, order, k + 1,
                        [status |-> r.status, error |-> r.error,
                         rendered |-> Append(acc.rendered, order[k]),
                         canvas |-> acc.canvas \o r.draws],
                        backend, f, b)

\* image.encode_to_data(PNG): the bytes denote the surface they encode
EncodePng(g, canvas) ==
    [format |-> "png", width |-> g.width, height |-> g.height,
     background_color |-> g.background_color, canvas |-> canvas]

Returned(op, status, error, rendered, value, wrote) ==
    [op |-> op, status |-> status, error |-> error, rendered |-> rendered,
     value |-> value, wrote |-> wrote]

NoCall == Returned("none", "ok", "none", <<>>, None, None)

\* no utility routine has been handed arguments
NoInput == [op |-> "none"]
NoOutput == [op |-> "none"]

\* no server is running
NoServer == [clock |-> 0, files |-> <<>>, handlers |-> <<>>]

\* PosterGenerator::generate
generate(g, backend, f, b) ==
    IF ~backend.surface
    THEN Returned("generate", "err", "RenderError", <<>>, None, None)
    ELSE LET pass == RenderLoop(g.elements, sorted_elements(g.elements), 1,
                                [status |-> "ok", error |-> "none",
                                 rendered |-> <<>>, canvas |-> <<>>],
                                backend, f, b)
         IN  IF pass.status # "ok"
             THEN Returned("generate", pass.status, pass.error, pass.rendered, None, None)
             ELSE IF ~backend.encode
             THEN Returned("generate", "err", "OutputError", pass.rendered, None, None)
             ELSE Returned("generate", "ok", "none", pass.rendered,
                           Some(EncodePng(g, pass.canvas)), None)

\* PosterGenerator::generate_file: nothing is written unless generate succeeded
generate_file(g, backend, f, b) ==
    LET r == generate(g, backend, f, b)
    IN  IF r.status # "ok" THEN [r EXCEPT !.op = "generate_file"]
        ELSE IF ~backend.write
        THEN Returned("generate_file", "err", "io::Error", r.rendered, None, None)
        ELSE Returned("generate_file", "ok", "none", r.rendered, None, r.value)

\* data.as_bytes(): the bytes of the encoded picture, the PNG signature,
\* the low bytes of the two sides and one byte per drawing operation
DrawByte(d) ==
    (16 * d.elem + (IF d.what = "fill" THEN 1 ELSE IF d.what = "image" THEN 2 ELSE 3)
        + 64 * Len(d.arg)) % 256

as_bytes(png) ==
    <<137, 80, 78, 71, png.width % 256, png.height % 256>>
        \o [k \in 1..Len(png.canvas) |-> DrawByte(png.canvas[k])]

\* the alphabet of the standard base64 engine
Base64Alphabet == <<
    "A", "B", "C", "D", "E", "F", "G", "H", "I", "J", "K", "L", "M",
    "N", "O", "P", "Q", "R", "S", "T", "U", "V", "W", "X", "Y", "Z",
    "a", "b", "c", "d", "e", "f", "g", "h", "i", "j", "k", "l", "m",
    "n", "o", "p", "q", "r", "s", "t", "u", "v", "w", "x", "y", "z",
    "0", "1", "2", "3", "4", "5", "6", "7", "8", "9", "+", "/">>

Sextet(n) == Base64Alphabet[n + 1]

\* a base64 engine that writes no padding
RECURSIVE Base64NoPadFrom(_, _)
Base64NoPadFrom(bytes, i) ==
    IF i > Len(bytes) THEN <<>>
    ELSE IF i = Len(bytes)
    THEN <<Sextet(bytes[i] \div 4), Sextet((bytes[i] % 4) * 16)>>
    ELSE IF i + 1 = Len(bytes)
    THEN <<Sextet(bytes[i] \div 4),
           Sextet((bytes[i] % 4) * 16 + bytes[i + 1] \div 16),
           Sextet((bytes[i + 1] % 16) * 4)>>
    ELSE <<Sextet(bytes[i] \div 4),
           Sextet((bytes[i] % 4) * 16 + bytes[i + 1] \div 16),
           Sextet((bytes[i + 1] % 16) * 4 + bytes[i + 2] \div 64),
           Sextet(bytes[i + 2] % 64)>> \o Base64NoPadFrom(bytes, i + 3)

Base64_no_pad(bytes) == Base64NoPadFrom(bytes, 1)

\* three bytes become four characters; a last group of one or two bytes is
\* padded with "=" to four characters
RECURSIVE Base64From(_, _)
Base64From(bytes, i) ==
    IF i > Len(bytes) THEN <<>>
    ELSE IF i = Len(bytes)
    THEN <<Sextet(bytes[i] \div 4), Sextet((bytes[i] % 4) * 16), "=", "=">>
    ELSE IF i + 1 = Len(bytes)
    THEN <<Sextet(bytes[i] \div 4),
           Sextet((bytes[i] % 4) * 16 + bytes[i + 1] \div 16),
           Sextet((bytes[i + 1] % 16) * 4), "=">>
    ELSE <<Sextet(bytes[i] \div 4),
           Sextet((bytes[i] % 4) * 16 + bytes[i + 1] \div 16),
           Sextet((bytes[i + 1] % 16) * 4 + bytes[i + 2] \div 64),
           Sextet(bytes[i + 2] % 64)>> \o Base64From(bytes, i + 3)

\* general_purpose::STANDARD.encode
Base64(bytes) == Base64From(bytes, 1)

\* the literal of format!("data:image/png;base64,{}", base64)
DataUrlPrefix == <<"d", "a", "t", "a", ":", "i", "m", "a", "g", "e", "/", "p", "n", "g", ";", "b", "a", "s", "e", "6", "4", ",">>

\* PosterGenerator::generate_base64
generate_base64(g, backend, f, b) ==
    LET r == generate(g, backend, f, b)
    IN  IF r.status # "ok" THEN [r EXCEPT !.op = "generate_base64"]
        ELSE Returned("generate_base64", "ok", "none", r.rendered,
                      Some(DataUrlPrefix \o Base64(as_bytes(Unwrap(r.value)))), None)

----------------------------------------------------------------------------
(* Specification of the generator: callers add elements and render         *)

Init ==
    /\ font = RenderFont
    /\ build \in Builds
    /\ pc = "idle"
    /\ text = <<>>
    /\ max_width = 0
    /\ max_lines = None
    /\ result = [op |-> "none", panic |-> FALSE, lines |-> <<>>]
    /\ second = [op |-> "none", panic |-> FALSE, lines |-> <<>>]
    /\ generator = new(800, 600, "#ffffff")
    /\ call = NoCall
    /\ server = NoServer
    /\ input = NoInput
    /\ output = NoOutput

\* PosterGenerator::add_background
add_background ==
    /\ pc = "idle"
    /\ Len(generator.elements) < MaxElements
    /\ \E background \in Backgrounds :
           /\ generator' = push(generator, background)
           /\ input' = [op |-> "add_background", element |-> background]
    /\ UNCHANGED <<server, font, build, pc, layoutVars, call, output>>

\* PosterGenerator::add_image
add_image ==
    /\ pc = "idle"
    /\ Len(generator.elements) < MaxElements
    /\ \E image \in Images :
           /\ generator' = push(generator, image)
           /\ input' = [op |-> "add_image", element |-> image]
    /\ UNCHANGED <<server, font, build, pc, layoutVars, call, output>>

\* PosterGenerator::add_text
add_text ==
    /\ pc = "idle"
    /\ Len(generator.elements) < MaxElements
    /\ \E txt \in Texts :
           /\ generator' = push(generator, txt)
           /\ input' = [op |-> "add_text", element |-> txt]
    /\ UNCHANGED <<server, font, build, pc, layoutVars, call, output>>

\* PosterGenerator::clear
clear ==
    /\ pc = "idle"
    /\ generator' = [generator EXCEPT !.elements = <<>>]
    /\ input' = [op |-> "clear"]
    /\ UNCHANGED <<server, font, build, pc, layoutVars, call, output>>

\* PosterGenerator::set_elements
SetElements ==
    /\ pc = "idle"
    /\ \E elements \in ElementLists :
           /\ generator' = set_elements(generator, elements)
           /\ input' = [op |-> "set_elements", elements |-> elements]
    /\ UNCHANGED <<server, font, build, pc, layoutVars, call, output>>

Generate ==
    /\ pc = "idle"
    /\ \E backend \in Backends :
           /\ call' = generate(generator, backend, font, build)
           /\ output' = [op |-> "answers", backend |-> backend]
    /\ pc' = "returned"
    /\ UNCHANGED <<server, font, build, layoutVars, generator, input>>

GenerateFile ==
    /\ pc = "idle"
    /\ \E backend \in Backends :
           /\ call' = generate_file(generator, backend, font, build)
           /\ output' = [op |-> "answers", backend |-> backend]
    /\ pc' = "returned"
    /\ UNCHANGED <<server, font, build, layoutVars, generator, input>>

GenerateBase64 ==
    /\ pc = "idle"
    /\ \E backend \in Backends :
           /\ call' = generate_base64(generator, backend, font, build)
           /\ output' = [op |-> "answers", backend |-> backend]
    /\ pc' = "returned"
    /\ UNCHANGED <<server, font, build, layoutVars, generator, input>>

\* the caller takes the returned value and goes on using the generator
Resume ==
    /\ pc = "returned"
    /\ pc' = "idle"
    /\ call' = NoCall
    /\ output' = NoOutput
    /\ UNCHANGED <<server, font, build, layoutVars, generator, input>>

Next ==
    \/ add_background
    \/ add_image
    \/ add_text
    \/ clear
    \/ SetElements
    \/ Generate
    \/ GenerateFile
    \/ GenerateBase64
    \/ Resume

Spec == Init /\ [][Next]_vars

----------------------------------------------------------------------------
(* Specification of the layout routines: inputs drawn at the start, then   *)
(* a routine applied to them, then a routine applied to its outcome        *)

MaxLinesOptions == {None} \cup {Some(n) : n \in 0..MaxLinesCap}

MaxRtlLen == 3         \* longest text with right-to-left characters handed to the layout

\* a Latin letter, the space and an Arabic letter
RtlChars == {"a", " ", "U+0627"}

NoResult == [op |-> "none", panic |-> FALSE, lines |-> <<>>]

Applied(op, r) == [op |-> op, panic |-> r.panic, lines |-> r.lines]

InitLayout ==
    /\ font \in Fonts
    /\ build \in Builds
    /\ pc = "input"
    /\ text \in TextsUpTo(MaxLen) \cup TextsOver(RtlChars, MaxRtlLen)
    /\ max_width \in 0..MaxWidth
    /\ max_lines \in MaxLinesOptions
    /\ result = NoResult
    /\ second = NoResult
    /\ generator = new(800, 600, "#ffffff")
    /\ call = NoCall
    /\ server = NoServer
    /\ input = NoInput
    /\ output = NoOutput

BreakText ==
    /\ pc = "input"
    /\ result' = Applied("break_text", break_text(text, max_width, font, max_lines, build))
    /\ pc' = "applied"
    /\ UNCHANGED <<server, font, build, text, max_width, max_lines, second, generatorVars, utilityVars>>

BreakTextRtl ==
    /\ pc = "input"
    /\ result' = Applied("break_text_rtl",
                         break_text_rtl(text, max_width, font, max_lines, build))
    /\ pc' = "applied"
    /\ UNCHANGED <<server, font, build, text, max_width, max_lines, second, generatorVars, utilityVars>>

\* the truncation routines take no max_lines and do no checked arithmetic
Truncate ==
    /\ pc = "input"
    /\ max_lines = None
    /\ build = "release"
    /\ result' = [op |-> "truncate_with_ellipsis", panic |-> FALSE,
                  lines |-> <<truncate_with_ellipsis(text, max_width, font)>>]
    /\ pc' = "applied"
    /\ UNCHANGED <<server, font, build, text, max_width, max_lines, second, generatorVars, utilityVars>>

TruncateRtl ==
    /\ pc = "input"
    /\ max_lines = None
    /\ build = "release"
    /\ result' = [op |-> "truncate_with_ellipsis_rtl", panic |-> FALSE,
                  lines |-> <<truncate_with_ellipsis_rtl(text, max_width, font)>>]
    /\ pc' = "applied"
    /\ UNCHANGED <<server, font, build, text, max_width, max_lines, second, generatorVars, utilityVars>>

\* wrap(join(wrap(text, W), " "), W): the returned lines wrapped again
Rewrap ==
    /\ pc = "applied"
    /\ result.op \in {"break_text", "break_text_rtl"}
    /\ max_lines = None
    /\ ~result.panic
    /\ second' = Applied(result.op,
                         IF result.op = "break_text"
                         THEN break_text(Join(result.lines), max_width, font, max_lines, build)
                         ELSE break_text_rtl(Join(result.lines), max_width, font,
                                             max_lines, build))
    /\ pc' = "reapplied"
    /\ UNCHANGED <<server, font, build, text, max_width, max_lines, result, generatorVars, utilityVars>>

\* the truncated string truncated again
TruncateAgain ==
    /\ pc = "applied"
    /\ result.op \in {"truncate_with_ellipsis", "truncate_with_ellipsis_rtl"}
    /\ second' = [op |-> result.op, panic |-> FALSE,
                  lines |-> <<IF result.op = "truncate_with_ellipsis"
                              THEN truncate_with_ellipsis(result.lines[1], max_width, font)
                              ELSE truncate_with_ellipsis_rtl(result.lines[1], max_width,
                                                              font)>>]
    /\ pc' = "reapplied"
    /\ UNCHANGED <<server, font, build, text, max_width, max_lines, result, generatorVars, utilityVars>>

NextLayout ==
    \/ BreakText
    \/ BreakTextRtl
    \/ Truncate
    \/ TruncateRtl
    \/ Rewrap
    \/ TruncateAgain

SpecLayout == InitLayout /\ [][NextLayout]_vars

----------------------------------------------------------------------------
(* Specification of the script classifier: a text is drawn, then classified *)

MaxScriptLen == 2      \* longest text handed to the classifier

InitScript ==
    /\ font = RenderFont
    /\ build = "release"
    /\ pc = "input"
    /\ text = <<>>
    /\ max_width = 0
    /\ max_lines = None
    /\ result = NoResult
    /\ second = NoResult
    /\ generator = new(800, 600, "#ffffff")
    /\ call = NoCall
    /\ server = NoServer
    /\ input \in {[op |-> "is_rtl_text", text |-> t] : t \in TextsOver(ScriptChars, MaxScriptLen)}
    /\ output = NoOutput

IsRtlText ==
    /\ pc = "input"
    /\ output' = [op |-> "is_rtl_text", value |-> is_rtl_text(input.text)]
    /\ pc' = "applied"
    /\ UNCHANGED <<server, font, build, layoutVars, generatorVars, input>>

NextScript == IsRtlText

SpecScript == InitScript /\ [][NextScript]_vars

----------------------------------------------------------------------------
(* Specification of text rendering: a text element is drawn, then rendered *)

MaxTextLen == 2        \* longest text body of a rendered text element

\* ASCII, an Arabic letter and a Hebrew letter
TextChars == {"a", " ", "U+0627", "U+05D0"}

TextAligns == {"Left", "Center", "Right"}
TextDirections == {"Ltr", "Rtl"}

TextElements(n) ==
    {[TextElement(t, mw, None, None) EXCEPT
          !.x = 10, !.align = al, !.direction = dir, !.prefix = pre,
          !.background_color = bg, !.padding = pad, !.width = wd] :
        t \in TextsOver(TextChars, n),
        mw \in {None, Some(2)},
        al \in TextAligns,
        dir \in TextDirections,
        pre \in {None, Some(<<"a">>), Some(<<"U+0627">>)},
        bg \in {None, Some("#ffff00")},
        pad \in {0, 1},
        wd \in {None, Some(5)}}

InitText ==
    /\ font = RenderFont
    /\ build = "release"
    /\ pc = "input"
    /\ text = <<>>
    /\ max_width = 0
    /\ max_lines = None
    /\ result = NoResult
    /\ second = NoResult
    /\ generator = new(800, 600, "#ffffff")
    /\ call = NoCall
    /\ server = NoServer
    /\ input \in {[op |-> "render", element |-> e] : e \in TextElements(MaxTextLen)}
    /\ output = NoOutput

\* TextElement::render on the element drawn
RenderTextElement ==
    /\ pc = "input"
    /\ LET r == TextElement_render(input.element, font, build)
       IN  output' = [op |-> "render", full_text |-> full_text(input.element),
                      direction |-> r.direction, box |-> r.box, lines |-> r.lines,
                      draws |-> r.draws]
    /\ pc' = "applied"
    /\ UNCHANGED <<server, font, build, layoutVars, generatorVars, input>>

NextText == RenderTextElement

SpecText == InitText /\ [][NextText]_vars

----------------------------------------------------------------------------
(* Specification of the geometry and colour utilities: arguments are       *)
(* drawn, then the routine they are for is applied                         *)

MaxSide == 4           \* largest width or height of a box or an image
MaxRadius2 == 9        \* largest doubled radius asked for
MaxColorLen == 8       \* longest colour string after its first character

\* hex digits, a sign and a two-byte character
ColorChars == {"0", "f", "+", "U+00E9"}

ColorStrings(n) ==
    {<<"#">> \o body : body \in TextsOver(ColorChars, n)} \cup TextsOver(ColorChars, 1)

Radii ==
    {Single(r2) : r2 \in 0..MaxRadius2}
        \cup {Multiple(tl2, tr2, br2, bl2) : tl2 \in {0, 2, MaxRadius2}, tr2 \in {0, 2, MaxRadius2},
                                            br2 \in {0, 2, MaxRadius2}, bl2 \in {0, 2, MaxRadius2}}

GeometryInputs(n) ==
    {[op |-> "create_rounded_rect_path", width |-> w, height |-> h, radius |-> r] :
        w \in 1..MaxSide, h \in 1..MaxSide, r \in Radii}
    \cup {[op |-> "scale_image", src_width |-> sw, src_height |-> sh,
           width |-> w, height |-> h, object_fit |-> fit] :
        sw \in 1..MaxSide, sh \in 1..MaxSide, w \in 1..MaxSide, h \in 1..MaxSide,
        fit \in ObjectFits}
    \cup {[op |-> "parse_color", color_str |-> c] : c \in ColorStrings(n)}

InitGeometry ==
    /\ font = RenderFont
    /\ build = "release"
    /\ pc = "input"
    /\ text = <<>>
    /\ max_width = 0
    /\ max_lines = None
    /\ result = NoResult
    /\ second = NoResult
    /\ generator = new(800, 600, "#ffffff")
    /\ call = NoCall
    /\ server = NoServer
    /\ input \in GeometryInputs(MaxColorLen)
    /\ output = NoOutput

CreateRoundedRectPath ==
    /\ pc = "input"
    /\ input.op = "create_rounded_rect_path"
    /\ output' = [op |-> input.op,
                  path |-> create_rounded_rect_path(0, 0, input.width, input.height,
                                                    input.radius)]
    /\ pc' = "applied"
    /\ UNCHANGED <<server, font, build, layoutVars, generatorVars, input>>

ScaleImage ==
    /\ pc = "input"
    /\ input.op = "scale_image"
    /\ output' = [op |-> input.op,
                  draw |-> scale_image_draw(input.src_width, input.src_height,
                                            input.width, input.height, input.object_fit)]
    /\ pc' = "applied"
    /\ UNCHANGED <<server, font, build, layoutVars, generatorVars, input>>

ParseColor ==
    /\ pc = "input"
    /\ input.op = "parse_color"
    /\ output' = [op |-> input.op, color |-> parse_color(input.color_str)]
    /\ pc' = "applied"
    /\ UNCHANGED <<server, font, build, layoutVars, generatorVars, input>>

NextGeometry ==
    \/ CreateRoundedRectPath
    \/ ScaleImage
    \/ ParseColor

SpecGeometry == InitGeometry /\ [][NextGeometry]_vars

----------------------------------------------------------------------------
(* Specification of the font resolver: a text, a requested family and a    *)
(* font environment are drawn, then the font is resolved                   *)

MaxMatching == 2       \* most family names the font manager matches

\* every family of the two priority lists, and one that is on neither
Families ==
    {RtlFamilies[k] : k \in 1..Len(RtlFamilies)}
        \cup {LtrFamilies[k] : k \in 1..Len(LtrFamilies)} \cup {"Custom"}

FontEnvironments(n) ==
    {[files |-> fs, matching |-> m, legacy_default |-> ld, legacy_system |-> ls] :
        fs \in SUBSET {FontFiles[1], FontFiles[2]},
        m \in {fm \in SUBSET Families : Cardinality(fm) <= n},
        ld \in BOOLEAN, ls \in BOOLEAN}

FontTexts == {<<>>, <<"a">>, <<"U+0627">>, <<"a", " ", "U+0627">>}

InitFont ==
    /\ font = RenderFont
    /\ build = "release"
    /\ pc = "input"
    /\ text = <<>>
    /\ max_width = 0
    /\ max_lines = None
    /\ result = NoResult
    /\ second = NoResult
    /\ generator = new(800, 600, "#ffffff")
    /\ call = NoCall
    /\ server = NoServer
    /\ input \in {[op |-> "get_font", text |-> t, font_family |-> ff, env |-> env] :
                      t \in FontTexts,
                      ff \in {None, Some("Custom"), Some("Arial")},
                      env \in FontEnvironments(MaxMatching)}
    /\ output = NoOutput

GetFontForText ==
    /\ pc = "input"
    /\ output' = [op |-> "get_font",
                  font |-> get_font_for_text_with_family(input.text, input.font_family,
                                                         input.env)]
    /\ pc' = "applied"
    /\ UNCHANGED <<server, font, build, layoutVars, generatorVars, input>>

NextFont == GetFontForText

SpecFont == InitFont /\ [][NextFont]_vars

----------------------------------------------------------------------------
(* Specification of one render call: a generator holding a short element   *)
(* list over every image source is drawn, then rendered                    *)

MaxCallElements == 2     \* longest element list of the generator rendered

\* one image and one background per source, and a text
CallElements ==
    {ImageElement(src, None) : src \in Sources}
        \cup {BackgroundElement(Some(src)) : src \in Sources}
        \cup {TextElement(<<"a", " ", "a">>, None, None, None)}

InitCall ==
    /\ font = RenderFont
    /\ build = "release"
    /\ pc = "idle"
    /\ text = <<>>
    /\ max_width = 0
    /\ max_lines = None
    /\ result = NoResult
    /\ second = NoResult
    /\ generator \in {set_elements(new(800, 600, "#ffffff"), es) :
                          es \in TextsOver(CallElements, MaxCallElements)}
    /\ call = NoCall
    /\ server = NoServer
    /\ input = NoInput
    /\ output = NoOutput

NextCall ==
    \/ Generate
    \/ GenerateFile
    \/ GenerateBase64
    \/ Resume

SpecCall == InitCall /\ [][NextCall]_vars

----------------------------------------------------------------------------
(* Specification of the server: /generate requests are handled             *)
(* concurrently, each by its own handler, while the clock advances         *)

MaxRequests == 2       \* requests in flight
MaxClock == 1          \* seconds the clock advances while they are handled

Requests == 1..MaxRequests

\* PosterConfig of a request: two posters that differ in their one element
ServerConfigs ==
    {[width |-> 800, height |-> 600, background_color |-> "#ffffff", elements |-> es] :
        es \in {<<ImageElement("ok.png", None)>>,
                <<TextElement(<<"a">>, None, None, None)>>}}

OutputFormats == {"Base64", "File"}

PosterRequests == [config : ServerConfigs, format : OutputFormats]

\* the generator generate_poster_internal builds: new, then one add per element
RequestGenerator(config) ==
    PushAll(new(config.width, config.height, config.background_color), config.elements, 1)

\* a handler that has received its request and not yet run
Received(req) == [pc |-> "received", req |-> req, path |-> None, response |-> None]

\* a file of the temporary directory: its bytes, and the requests that wrote it
NoFile == [content |-> None, writers |-> {}]

\* format!("poster_{}.png", chrono::Utc::now().timestamp()) under temp_dir
PosterPath(timestamp) == [dir |-> "temp_dir", name |-> "poster", timestamp |-> timestamp]

\* PosterResponse with its status code
Success(data) == [code |-> 200, success |-> TRUE, data |-> Some(data), error |-> None]
Failure(error) == [code |-> 500, success |-> FALSE, data |-> None, error |-> Some(error)]

InitServer ==
    /\ font = RenderFont
    /\ build = "release"
    /\ pc = "serving"
    /\ text = <<>>
    /\ max_width = 0
    /\ max_lines = None
    /\ result = NoResult
    /\ second = NoResult
    /\ generator = new(800, 600, "#ffffff")
    /\ call = NoCall
    /\ input = NoInput
    /\ output = NoOutput
    /\ server \in {[clock |-> 0,
                     files |-> [t \in 0..MaxClock |-> NoFile],
                     handlers |-> h] :
                        h \in [Requests -> {Received(req) : req \in PosterRequests}]}

\* a second passes
Tick ==
    /\ pc = "serving"
    /\ server.clock < MaxClock
    /\ server' = [server EXCEPT !.clock = server.clock + 1]
    /\ UNCHANGED <<font, build, pc, layoutVars, generatorVars, utilityVars>>

\* the state after generate_base64 returned res to the handler of request r
AfterBase64(r, res) ==
    [server EXCEPT !.handlers[r].pc = "responded",
                   !.handlers[r].response =
                       Some(IF res.status = "ok" THEN Success(Unwrap(res.value))
                            ELSE Failure(res.error))]

\* OutputFormat::Base64: the handler renders and responds with the data URL
RespondBase64(r) ==
    /\ pc = "serving"
    /\ server.handlers[r].pc = "received"
    /\ server.handlers[r].req.format = "Base64"
    /\ \E backend \in Backends :
           server' = AfterBase64(r, generate_base64(
                                        RequestGenerator(server.handlers[r].req.config),
                                        backend, font, build))
    /\ UNCHANGED <<font, build, pc, layoutVars, generatorVars, utilityVars>>

\* OutputFormat::File: the handler reads the clock and names its file
NamePath(r) ==
    /\ pc = "serving"
    /\ server.handlers[r].pc = "received"
    /\ server.handlers[r].req.format = "File"
    /\ server' = [server EXCEPT !.handlers[r].pc = "named",
                                !.handlers[r].path = Some(PosterPath(server.clock))]
    /\ UNCHANGED <<font, build, pc, layoutVars, generatorVars, utilityVars>>

\* the state after generate_file(&path) returned res to the handler of
\* request r: std::fs::write has replaced the file when res is Ok
AfterFile(r, path, res) ==
    IF res.status = "ok"
    THEN [server EXCEPT !.files[path.timestamp] =
                            [content |-> res.wrote,
                             writers |-> server.files[path.timestamp].writers \cup {r}],
                        !.handlers[r].pc = "responded",
                        !.handlers[r].response = Some(Success(path))]
    ELSE [server EXCEPT !.handlers[r].pc = "responded",
                        !.handlers[r].response = Some(Failure(res.error))]

\* the handler renders into its file and responds with the path
WriteFile(r) ==
    /\ pc = "serving"
    /\ server.handlers[r].pc = "named"
    /\ \E backend \in Backends :
           server' = AfterFile(r, Unwrap(server.handlers[r].path),
                               generate_file(RequestGenerator(server.handlers[r].req.config),
                                             backend, font, build))
    /\ UNCHANGED <<font, build, pc, layoutVars, generatorVars, utilityVars>>

NextServer ==
    \/ Tick
    \/ \E r \in Requests : RespondBase64(r)
    \/ \E r \in Requests : NamePath(r)
    \/ \E r \in Requests : WriteFile(r)

SpecServer == InitServer /\ [][NextServer]_vars

----------------------------------------------------------------------------
(* Claims about the render pass (checked under Spec)                       *)

\* the depth key as the data model states it
DepthKey(e) ==
    IF e.type = "background" THEN -1000
    ELSE IF e.z_index = None THEN 0 ELSE e.z_index[1]

Called == call.op # "none"

RenderedKey(p) == DepthKey(generator.elements[call.rendered[p]])

\* C1: generate renders the elements in ascending order of depth key, two
\* elements of equal key in the order they were added; a successful call
\* renders every element once.
C1_RenderedInDepthOrder ==
    Called =>
        /\ \A p, q \in 1..Len(call.rendered) :
               p < q => \/ RenderedKey(p) < RenderedKey(q)
                        \/ /\ RenderedKey(p) = RenderedKey(q)
                           /\ call.rendered[p] < call.rendered[q]
        /\ call.status = "ok" =>
               {call.rendered[p] : p \in 1..Len(call.rendered)}
                   = 1..Len(generator.elements)

\* a successful call that moved an element ahead of one added before it
\* and kept two elements of equal key in the order they were added
C1_Witness ==
    /\ Called
    /\ call.status = "ok"
    /\ \E p, q \in 1..Len(call.rendered) :
           p < q /\ call.rendered[p] > call.rendered[q]
    /\ \E p, q \in 1..Len(call.rendered) :
           p < q /\ RenderedKey(p) = RenderedKey(q)

\* C2: every Background element is rendered before every Image and Text
\* element, whatever depth the Image and Text elements are given.
C2_BackgroundsRenderedFirst ==
    Called =>
        \A p, q \in 1..Len(call.rendered) :
            (p < q /\ generator.elements[call.rendered[q]].type = "background")
                => generator.elements[call.rendered[p]].type = "background"

\* C3: a render call either renders every element in depth order and
\* returns the complete output, or returns one error, no bytes, no string
\* and leaves the output path unwritten.
C3_AllOrNothing ==
    Called =>
        \/ /\ call.status = "ok"
           /\ Len(call.rendered) = Len(generator.elements)
           /\ call.op = "generate_file" => IsSome(call.wrote)
           /\ call.op # "generate_file" => IsSome(call.value)
        \/ /\ call.status = "err"
           /\ call.error # "none"
           /\ call.value = None
           /\ call.wrote = None

Unloadable(e) ==
    \/ e.type = "image" /\ e.src = "missing.png"
    \/ e.type = "background" /\ e.image = <<"missing.png">>

\* C4: an element whose image source cannot be loaded makes the call return
\* an error once the surface exists, and a call fails for no other reason
\* than an unloadable image, a surface failure or an encode failure.
C4_UnloadableImageAborts ==
    (Called /\ call.op = "generate") =>
        /\ (\E i \in 1..Len(generator.elements) : Unloadable(generator.elements[i]))
               => call.status = "err"
        /\ call.status # "ok" =>
               \/ call.error \in {"RenderError", "OutputError"}
               \/ \E i \in 1..Len(generator.elements) : Unloadable(generator.elements[i])

----------------------------------------------------------------------------
(* Claims about wrapping and truncation (checked under SpecLayout)         *)

Wrapped == pc # "input" /\ result.op \in {"break_text", "break_text_rtl"}
Truncated ==
    pc # "input" /\ result.op \in {"truncate_with_ellipsis", "truncate_with_ellipsis_rtl"}

Width(s) == measure_text(s, font)
Tokens == split_whitespace(text)
LastLine == result.lines[Len(result.lines)]

\* the number of lines the text takes at max_width with no line cap
LinesNeeded == Len(break_text_rtl(text, max_width, font, None, build).lines)

\* C5: with max_lines set, wrap returns at most max_lines lines.
C5_AtMostMaxLines ==
    (Wrapped /\ IsSome(max_lines) /\ ~result.panic)
        => Len(result.lines) <= Unwrap(max_lines)

\* C6: when the text needs more lines than max_lines, the last returned
\* line ends with the ellipsis marker; a text wider than max_width wrapped
\* with max_lines = 1 yields exactly one line, ending in the marker.
\* Stated for a text with at least one token and max_lines >= 1, where no
\* subtraction overflows.
C6_EllipsisWhenCapped ==
    (Wrapped /\ IsSome(max_lines) /\ ~result.panic /\ Unwrap(max_lines) >= 1
        /\ Tokens # <<>>)
        => /\ LinesNeeded > Unwrap(max_lines)
                  => /\ result.lines # <<>>
                     /\ EndsWith(LastLine, Ellipsis)
           /\ (Width(text) > max_width /\ Unwrap(max_lines) = 1)
                  => /\ Len(result.lines) = 1
                     /\ EndsWith(LastLine, Ellipsis)

\* C7 as claimed: every line of the re-wrapped output is at most max_width wide.
C7_RewrapWithinWidth ==
    pc = "reapplied" /\ Wrapped
        => \A k \in 1..Len(second.lines) : Width(second.lines[k]) <= max_width

\* C7: every line of the re-wrapped output is at most max_width wide, or
\* is a single token (a token wider than max_width is never split).
C7_RewrapWithinWidthOrOneToken ==
    pc = "reapplied" /\ Wrapped
        => \A k \in 1..Len(second.lines) :
               \/ Width(second.lines[k]) <= max_width
               \/ Len(split_whitespace(second.lines[k])) = 1

\* a re-wrapped output of three lines, one an overlong token and one
\* that fits
C7_Witness ==
    /\ pc = "reapplied" /\ Wrapped
    /\ Len(second.lines) = 3
    /\ \E k \in 1..Len(second.lines) : Width(second.lines[k]) > max_width
    /\ \E k \in 1..Len(second.lines) : Width(second.lines[k]) <= max_width

\* C8 as claimed: with max_width below the measured width of the text and
\* no max_lines, wrap produces more than one line (stated for a text with
\* at least one token).
C8_NarrowWidthWraps ==
    (Wrapped /\ max_lines = None /\ Width(text) > max_width /\ Tokens # <<>>)
        => Len(result.lines) > 1

\* C8: with no max_lines, a text of two or more tokens whose tokens joined
\* by single spaces are wider than max_width wraps into more than one line.
C8_NarrowWidthWrapsTokens ==
    (Wrapped /\ max_lines = None /\ Len(Tokens) >= 2 /\ Width(Join(Tokens)) > max_width)
        => /\ ~result.panic
           /\ Len(result.lines) > 1

\* a text of three tokens, wider than max_width, wrapped into two lines
C8_Witness ==
    /\ Wrapped /\ max_lines = None
    /\ Len(Tokens) = 3
    /\ Width(Join(Tokens)) > max_width
    /\ Len(result.lines) = 2

\* C9: truncation returns a string that fits max_width unchanged, so a
\* second application returns what the first did.
C9_FittingUnchanged ==
    (Truncated /\ Width(text) <= max_width)
        => /\ result.lines[1] = text
           /\ pc = "reapplied" => second.lines[1] = result.lines[1]

\* a non-empty string exactly as wide as max_width, truncated twice
C9_Witness ==
    /\ Truncated /\ pc = "reapplied"
    /\ text # <<>>
    /\ Width(text) = max_width

\* C10 as claimed: a truncated overlong string ends with the ellipsis
\* marker and is at most max_width wide, for every max_width (stated for a
\* non-empty string).
C10_TruncatedFits ==
    (Truncated /\ Width(text) > max_width /\ text # <<>>)
        => /\ EndsWith(result.lines[1], Ellipsis)
           /\ Width(result.lines[1]) <= max_width

\* the measure of a text followed by the marker is at most the sum of the
\* two measures: the sum of advances, or a font box no narrower than a glyph
MeasureAddsUp(f) ==
    f.skip = 0 \/ \A c \in Chars \cup {"."} : Advance(c) <= f.box

\* the characters truncation kept in front of the marker
Kept == SubSeq(result.lines[1], 1, Len(result.lines[1]) - Len(Ellipsis))

\* C10: a truncated overlong string ends with the ellipsis marker and keeps
\* leading characters of the string that measure at most max_width less the
\* width of the marker; below the width of the marker it is the bare marker;
\* at or above it, under a measure that adds up, it is at most max_width wide.
C10_TruncatedWithinBudget ==
    (Truncated /\ Width(text) > max_width)
        => /\ EndsWith(result.lines[1], Ellipsis)
           /\ Kept = SubSeq(text, 1, Len(Kept))
           /\ Kept # <<>> => Width(Kept) <= max_width - Width(Ellipsis)
           /\ max_width < Width(Ellipsis) => result.lines[1] = Ellipsis
           /\ (max_width >= Width(Ellipsis) /\ MeasureAddsUp(font))
                  => Width(result.lines[1]) <= max_width

\* an overlong string cut to a kept prefix and the marker
C10_Witness ==
    /\ Truncated /\ Width(text) > max_width
    /\ max_width >= Width(Ellipsis)
    /\ MeasureAddsUp(font)
    /\ font.skip = 1
    /\ Kept # <<>>

----------------------------------------------------------------------------
(* Claims about the script classifier (checked under SpecScript)           *)

Classified == pc = "applied" /\ output.op = "is_rtl_text"

\* the five blocks named by the classifier's contract, as code point ranges
RtlBlocks == {<<1536, 1791>>, <<1872, 1919>>, <<2208, 2303>>, <<64336, 65023>>,
              <<65136, 65279>>}

InRtlBlock(c) == \E r \in RtlBlocks : r[1] <= CodePoint[c] /\ CodePoint[c] <= r[2]

\* C11: is_rtl_text returns true exactly when at least one code point of the
\* text lies in one of the five ranges U+0600-06FF, U+0750-077F, U+08A0-08FF,
\* U+FB50-FDFF, U+FE70-FEFF; the empty text and ASCII-only text are
\* left-to-right, one such character in a mixed text makes it right-to-left.
C11_RtlExactlyOnFiveRanges ==
    Classified =>
        /\ output.value = (\E i \in 1..Len(input.text) : InRtlBlock(input.text[i]))
        /\ (input.text = <<>> => output.value = FALSE)
        /\ ((\A i \in 1..Len(input.text) : CodePoint[input.text[i]] < 128)
                => output.value = FALSE)

\* a mixed text, ASCII first, classified right-to-left by its last character
C11_Witness ==
    /\ Classified
    /\ input.text = <<"a", "U+FEFF">>
    /\ output.value = TRUE

\* C12: text of each right-to-left script family, Hebrew letters
\* (U+0590-05FF) in particular, classifies as right-to-left.
C12_HebrewIsRtl ==
    (/\ Classified
     /\ input.text # <<>>
     /\ \A i \in 1..Len(input.text) :
            CodePoint[input.text[i]] >= 1424 /\ CodePoint[input.text[i]] <= 1535)
        => output.value = TRUE

----------------------------------------------------------------------------
(* Claims about text rendering (checked under SpecText)                    *)

RenderedText == pc = "applied" /\ output.op = "render"

C14_DrawOriginArithmetic ==
    RenderedText =>
        \A k \in 1..Len(output.draws) :
            LET d == output.draws[k]
                x == input.element.x
                al == input.element.align
            IN  d.draw_x2 = (IF al = "Left" THEN 2 * x
                             ELSE IF al = "Right" THEN 2 * (x - d.width)
                             ELSE 2 * x - d.width)

\* C15: the highlight box's x-origin is x - padding (left-aligned) or
\* x - box_width + padding (right-aligned) for left-to-right direction, the
\* two swapped for right-to-left direction, and x - box_width/2 for center
\* alignment; the direction is the resolved one and box_width is the
\* explicit width if given, else text_width + 2*padding.
C15_HighlightBoxOrigin ==
    (RenderedText /\ IsSome(input.element.background_color)) =>
        /\ IsSome(output.box)
        /\ LET e == input.element
               box == Unwrap(output.box)
               rtl == e.direction = "Rtl" \/ is_rtl_text(output.full_text)
               startSide == (e.align = "Left" /\ ~rtl) \/ (e.align = "Right" /\ rtl)
           IN  /\ box.text_width = measure_text_with_font(output.full_text, font)
               /\ box.bg_width = (IF IsSome(e.width) THEN Unwrap(e.width)
                                  ELSE box.text_width + 2 * e.padding)
               /\ box.bg_x2 = (IF e.align = "Center" THEN 2 * e.x - box.bg_width
                               ELSE IF startSide THEN 2 * e.x - 2 * e.padding
                               ELSE 2 * e.x - 2 * box.bg_width + 2 * e.padding)

\* a left-aligned box of an element set left-to-right but resolved
\* right-to-left: it ends at x + padding
C15_Witness ==
    /\ RenderedText
    /\ IsSome(output.box)
    /\ input.element.direction = "Ltr"
    /\ output.direction = "Rtl"
    /\ input.element.align = "Left"
    /\ input.element.padding = 1
    /\ input.element.width = None
    /\ Unwrap(output.box).bg_x2 + 2 * Unwrap(output.box).bg_width
           = 2 * (input.element.x + input.element.padding)

----------------------------------------------------------------------------
(* Claims about the geometry and colour utilities (checked under           *)
(* SpecGeometry)                                                           *)

Outlined == pc = "applied" /\ output.op = "create_rounded_rect_path"
Scaled == pc = "applied" /\ output.op = "scale_image"
ParsedColor == pc = "applied" /\ output.op = "parse_color"

\* C16: every radius used to build an outline is at most min(width,
\* height)/2; a Single radius r >= min(w,h)/2 is clamped to exactly
\* min(w,h)/2, each per-corner radius is clamped the same way, and the two
\* radii on any side never sum to more than that side's length.
C16_RadiiClamped ==
    Outlined =>
        LET shorter == Min(input.width, input.height)       \* 2 * (min(w,h)/2)
            asked == input.radius.corners
            used == output.path.radii2
        IN  /\ \A k \in 1..4 : used[k] <= shorter
            /\ \A k \in 1..4 :
                   LET r2 == IF input.radius.kind = "Single" THEN asked[1] ELSE asked[k]
                   IN  used[k] = (IF r2 >= shorter THEN shorter ELSE r2)
            /\ used[1] + used[2] <= 2 * input.width        \* top
            /\ used[3] + used[4] <= 2 * input.width        \* bottom
            /\ used[2] + used[3] <= 2 * input.height       \* right
            /\ used[4] + used[1] <= 2 * input.height       \* left

\* a box wider than tall whose corners ask for more than half its height:
\* the radii on the short side add up to exactly that side
C16_Witness ==
    /\ Outlined
    /\ input.radius.kind = "Multiple"
    /\ input.width > input.height
    /\ input.radius.corners[2] > input.width
    /\ input.radius.corners[3] > input.height
    /\ input.radius.corners[1] = 0
    /\ output.path.radii2[2] + output.path.radii2[3] = 2 * input.height

\* C17: for every positive source and target size scale_image uses, under
\* cover, the uniform scale max(target_w/image_w, target_h/image_h) with the
\* scaled image centered and covering the whole target box; under contain,
\* the uniform scale min(...) with the destination rectangle centered and
\* entirely inside the target box; under stretch, the target box itself.
C17_ScaleImageGeometry ==
    Scaled =>
        LET d == output.draw
            sw == input.src_width
            sh == input.src_height
            w == input.width
            h == input.height
            unit == 2 * d.den
            uniform == /\ (d.right - d.left) * d.den = unit * sw * d.num
                       /\ (d.bottom - d.top) * d.den = unit * sh * d.num
            centered == /\ d.left + d.right = unit * w
                        /\ d.top + d.bottom = unit * h
        IN  /\ input.object_fit = "Cover" =>
                /\ d.num * sw >= w * d.den /\ d.num * sh >= h * d.den
                /\ d.num * sw = w * d.den \/ d.num * sh = h * d.den
                /\ uniform
                /\ centered
                /\ d.left <= 0 /\ d.top <= 0
                /\ d.right >= unit * w /\ d.bottom >= unit * h
            /\ input.object_fit = "Contain" =>
                /\ d.num * sw <= w * d.den /\ d.num * sh <= h * d.den
                /\ d.num * sw = w * d.den \/ d.num * sh = h * d.den
                /\ uniform
                /\ centered
                /\ d.left >= 0 /\ d.top >= 0
                /\ d.right <= unit * w /\ d.bottom <= unit * h
            /\ input.object_fit = "Stretch" =>
                /\ d.left = 0 /\ d.top = 0
                /\ d.right = unit * w /\ d.bottom = unit * h

IsHexString(s) == \A k \in 1..Len(s) : s[k] \in HexDigits
HexPair(s, k) == 16 * HexValue(s[k]) + HexValue(s[k + 1])

\* C18: parse_color maps `#` followed by 6 hex digits to the opaque RGB
\* colour, `#` followed by 8 hex digits to the colour read in ARGB order,
\* and every other string to opaque black without failing.
C18_ParseColor ==
    ParsedColor =>
        LET s == input.color_str
            hex == IF s = <<>> THEN <<>> ELSE Tail(s)
            hashed == s # <<>> /\ s[1] = "#" /\ IsHexString(hex)
        IN  IF hashed /\ Len(hex) = 6
            THEN output.color = Color(255, HexPair(hex, 1), HexPair(hex, 3), HexPair(hex, 5))
            ELSE IF hashed /\ Len(hex) = 8
            THEN output.color = Color(HexPair(hex, 1), HexPair(hex, 3), HexPair(hex, 5),
                                      HexPair(hex, 7))
            ELSE output.color = BLACK

----------------------------------------------------------------------------
(* Claims about the element list (checked under Spec)                      *)

\* C19: the element list is the replay of the mutating calls: each add
\* appends one element and keeps the earlier ones in order, clear empties
\* the list, set_elements(E) leaves exactly E in E's order, and generate,
\* succeeding or failing, leaves list, width, height and background colour
\* unchanged, so that consecutive generate calls render the same list.
C19_Replay ==
    [][/\ (pc = "idle" /\ pc' = "idle") =>
            /\ generator'.width = generator.width
            /\ generator'.height = generator.height
            /\ generator'.background_color = generator.background_color
            /\ input'.op \in {"add_background", "add_image", "add_text"} =>
                   /\ Len(generator'.elements) = Len(generator.elements) + 1
                   /\ generator'.elements[Len(generator'.elements)] = input'.element
                   /\ SubSeq(generator'.elements, 1, Len(generator.elements))
                          = generator.elements
            /\ input'.op = "clear" => generator'.elements = <<>>
            /\ input'.op = "set_elements" => generator'.elements = input'.elements
            /\ input'.op \in {"add_background", "add_image", "add_text", "clear",
                              "set_elements"}
       /\ (pc' = "returned" \/ pc = "returned") =>
            /\ generator' = generator
            /\ input' = input
       /\ pc' = "returned" =>
            /\ \A k \in 1..Len(call'.rendered) :
                   call'.rendered[k] \in 1..Len(generator.elements)
            /\ call'.status = "ok" =>
                   {call'.rendered[k] : k \in 1..Len(call'.rendered)}
                       = 1..Len(generator.elements)
      ]_vars

\* a two-element list set by set_elements, rendered in full by the call
\* that returned
C19_Witness ==
    /\ pc = "returned"
    /\ call.status = "ok"
    /\ input.op = "set_elements"
    /\ Len(input.elements) = 2
    /\ generator.elements = input.elements
    /\ Len(call.rendered) = 2

----------------------------------------------------------------------------
(* Claims about the font resolver (checked under SpecFont)                 *)

Resolved == pc = "applied" /\ output.op = "get_font"

\* position of the first family of a priority list the manager matches
FirstIndex(families, matching) ==
    CHOOSE k \in 1..Len(families) :
        /\ families[k] \in matching
        /\ \A j \in 1..(k - 1) : families[j] \notin matching

\* C20: font resolution never fails and follows the fixed order, first
\* success wins: (1) for right-to-left-classified text the bundled font file
\* at either of the two relative paths, even over a caller-specified family;
\* (2) the caller-specified family if it matches an installed font; (3) the
\* first matching family of the priority list (the right-to-left list iff the
\* text is classified right-to-left); (4) the platform default, else the
\* built-in default.
C20_FontResolutionOrder ==
    Resolved =>
        LET env == input.env
            rtl == is_rtl_text(input.text)
            families == IF rtl THEN RtlFamilies ELSE LtrFamilies
            listed == {families[k] : k \in 1..Len(families)}
            f == output.font
        IN  /\ f.source \in {"file", "family", "platform", "builtin"}
            /\ IF rtl /\ env.files # {}
               THEN f.source = "file" /\ f.name \in env.files
               ELSE IF IsSome(input.font_family) /\ Unwrap(input.font_family) \in env.matching
               THEN f.source = "family" /\ f.name = Unwrap(input.font_family)
               ELSE IF listed \cap env.matching # {}
               THEN f.source = "family"
                    /\ f.name = families[FirstIndex(families, env.matching)]
               ELSE IF env.legacy_default \/ env.legacy_system
               THEN f.source = "platform"
               ELSE f.source = "builtin"

\* right-to-left text whose requested family matches, resolved to the
\* bundled file found at the second path only
C20_Witness ==
    /\ Resolved
    /\ is_rtl_text(input.text)
    /\ input.font_family = Some("Arial")
    /\ "Arial" \in input.env.matching
    /\ input.env.files = {"./UKIJBasma.ttf"}
    /\ output.font = [source |-> "file", name |-> "./UKIJBasma.ttf"]

----------------------------------------------------------------------------
(* Claims about one render call (checked under SpecCall)                   *)

\* C21: every failure of a render call is surfaced as one of the three error
\* kinds according to its cause: an unreadable or undecodable image source,
\* malformed base64 or a data URL without payload yields an image-load
\* failure; a surface allocation failure a render failure; an encoding
\* failure or a failure writing the output file an output failure.
C21_ErrorKindByCause ==
    (pc = "returned" /\ call.status = "err") =>
        /\ call.error \in {"ImageLoadError", "RenderError", "OutputError"}
        /\ ~output.backend.surface => call.error = "RenderError"
        /\ (~output.backend.encode \/ ~output.backend.write) => call.error = "OutputError"
        /\ (\A k \in DOMAIN output.backend : output.backend[k]) =>
               call.error = "ImageLoadError"

\* the index of a character in the standard alphabet, 64 for any other
SextetOf(c) ==
    IF \E n \in 0..63 : Sextet(n) = c
    THEN CHOOSE n \in 0..63 : Sextet(n) = c
    ELSE 64

\* a well-formed group of four characters of standard base64
GroupOk(s, i) ==
    /\ SextetOf(s[i]) < 64
    /\ SextetOf(s[i + 1]) < 64
    /\ \/ s[i + 2] = "=" /\ s[i + 3] = "=" /\ i + 3 = Len(s)
       \/ SextetOf(s[i + 2]) < 64 /\ s[i + 3] = "=" /\ i + 3 = Len(s)
       \/ SextetOf(s[i + 2]) < 64 /\ SextetOf(s[i + 3]) < 64

\* the bytes a group of four characters stands for
GroupBytes(s, i) ==
    IF s[i + 2] = "="
    THEN <<SextetOf(s[i]) * 4 + SextetOf(s[i + 1]) \div 16>>
    ELSE IF s[i + 3] = "="
    THEN <<SextetOf(s[i]) * 4 + SextetOf(s[i + 1]) \div 16,
           (SextetOf(s[i + 1]) % 16) * 16 + SextetOf(s[i + 2]) \div 4>>
    ELSE <<SextetOf(s[i]) * 4 + SextetOf(s[i + 1]) \div 16,
           (SextetOf(s[i + 1]) % 16) * 16 + SextetOf(s[i + 2]) \div 4,
           (SextetOf(s[i + 2]) % 4) * 64 + SextetOf(s[i + 3])>>

\* decoding of standard base64: the bytes, or failure on a string that is
\* not groups of four characters of the alphabet with "=" padding at the end
RECURSIVE Base64DecodeFrom(_, _)
Base64DecodeFrom(s, i) ==
    IF i > Len(s) THEN Some(<<>>)
    ELSE IF i + 3 > Len(s) \/ ~GroupOk(s, i) THEN None
    ELSE LET rest == Base64DecodeFrom(s, i + 4)
         IN  IF rest = None THEN None
             ELSE Some(GroupBytes(s, i) \o Unwrap(rest))

Base64Decode(s) == Base64DecodeFrom(s, 1)

\* what generate answers for the generator under the backend of the call
SameCallOfGenerate == generate(generator, output.backend, font, build)

\* C22: generate_base64 succeeds exactly when generate succeeds, with the
\* same error otherwise; its string is "data:image/png;base64," followed by
\* the standard base64 of exactly the bytes generate returns: stripping the
\* prefix and decoding gives those bytes back.
C22_Base64OfGenerate ==
    (pc = "returned" /\ call.op = "generate_base64") =>
        /\ call.status = SameCallOfGenerate.status
        /\ call.error = SameCallOfGenerate.error
        /\ call.status = "ok" =>
               /\ Len(Unwrap(call.value)) >= Len(DataUrlPrefix)
               /\ SubSeq(Unwrap(call.value), 1, Len(DataUrlPrefix)) = DataUrlPrefix
               /\ Base64Decode(SubSeq(Unwrap(call.value), Len(DataUrlPrefix) + 1,
                                      Len(Unwrap(call.value))))
                      = Some(as_bytes(Unwrap(SameCallOfGenerate.value)))

\* a poster of two elements returned as a data URL whose last group is padded
C22_Witness ==
    /\ pc = "returned"
    /\ call.op = "generate_base64"
    /\ call.status = "ok"
    /\ Len(generator.elements) = 2
    /\ Unwrap(call.value)[Len(Unwrap(call.value))] = "="

----------------------------------------------------------------------------
(* Claims about the drawing path of a line (checked under SpecText)        *)

\* C23: every line of an element whose resolved direction is right-to-left
\* is drawn through the paragraph path, and every line of a left-to-right
\* element through the single-run path; the choice is the element's, not the
\* line's, also for a line without right-to-left characters.
C23_PathFollowsDirection ==
    RenderedText =>
        \A k \in 1..Len(output.draws) :
            (output.draws[k].path = "paragraph") <=> (output.direction = "Rtl")

----------------------------------------------------------------------------
(* Claims about the right-to-left layout routines (checked under SpecLayout) *)

IsPrefixOf(p, s) == Len(p) <= Len(s) /\ p = SubSeq(s, 1, Len(p))

\* C24: break_text_rtl returns the lines break_text returns, and
\* truncate_with_ellipsis_rtl the string truncate_with_ellipsis returns,
\* for every text, max_width, font and max_lines, with or without
\* right-to-left characters; the characters of the text are never reversed,
\* and truncation keeps leading characters in front of the marker.
C24_RtlVariantsAgree ==
    /\ (pc # "input" /\ result.op = "break_text_rtl")
           => result = Applied("break_text_rtl",
                               break_text(text, max_width, font, max_lines, build))
    /\ (pc # "input" /\ result.op = "truncate_with_ellipsis_rtl")
           => /\ result.lines[1] = truncate_with_ellipsis(text, max_width, font)
              /\ \/ result.lines[1] = text
                 \/ /\ EndsWith(result.lines[1], Ellipsis)
                    /\ IsPrefixOf(Kept, text)
    /\ pc # "input" => process_rtl_text(text) = text

\* an Arabic text of two tokens wrapped by break_text_rtl into two lines
C24_Witness ==
    /\ pc = "applied"
    /\ result.op = "break_text_rtl"
    /\ is_rtl_text(text)
    /\ ~result.panic
    /\ Len(result.lines) = 2

----------------------------------------------------------------------------
(* Claims about the server (checked under SpecServer)                      *)

Handler(r) == server.handlers[r]

Succeeded(r) == Handler(r).pc = "responded" /\ Unwrap(Handler(r).response).success

\* the rendering of the request's own config
OwnPoster(r) ==
    generate(RequestGenerator(Handler(r).req.config),
             [surface |-> TRUE, scale |-> TRUE, encode |-> TRUE, write |-> TRUE],
             font, build).value

\* C25: for any interleaving of concurrent /generate requests, each
\* successful response denotes the rendering of that request's own config:
\* the data URL encodes its poster, and the file at the returned path holds
\* its poster and is written by no other request, also when two requests
\* are handled within the same second.
C25_ResponseIsOwnPoster ==
    pc = "serving" =>
        \A r \in Requests :
            Succeeded(r) =>
                IF Handler(r).req.format = "Base64"
                THEN Unwrap(Handler(r).response).data
                         = Some(DataUrlPrefix \o Base64(as_bytes(Unwrap(OwnPoster(r)))))
                ELSE /\ Unwrap(Handler(r).response).data = Handler(r).path
                     /\ server.files[Unwrap(Handler(r).path).timestamp].content = OwnPoster(r)
                     /\ server.files[Unwrap(Handler(r).path).timestamp].writers = {r}

----------------------------------------------------------------------------
(* Claims about the totality and the token order of wrap                   *)
(* (checked under SpecLayout)                                              *)

\* C26: wrapping never fails: for every text, also empty or of whitespace
\* only, every max_width and every max_lines, also 0 and 1, it returns a
\* list of lines without a panic; the list is empty when the text has no
\* token, and otherwise holds no empty line.
C26_WrapNeverFails ==
    Wrapped =>
        /\ ~result.panic
        /\ Tokens = <<>> => result.lines = <<>>
        /\ \A k \in 1..Len(result.lines) : result.lines[k] # <<>>

\* the tokens of the lines, in the order of the lines
RECURSIVE LineTokens(_, _)
LineTokens(lines, k) ==
    IF k > Len(lines) THEN <<>>
    ELSE split_whitespace(lines[k]) \o LineTokens(lines, k + 1)

\* the index in Tokens of the first token of line k
RECURSIVE FirstTokenOf(_, _)
FirstTokenOf(lines, k) ==
    IF k = 1 THEN 1
    ELSE FirstTokenOf(lines, k - 1) + Len(split_whitespace(lines[k - 1]))

\* tokens i..j joined by single spaces
TokensJoined(i, j) == Join(SubSeq(Tokens, i, j))

\* C27: without max_lines wrap neither splits, drops, duplicates nor
\* reorders tokens: the lines joined by single spaces are the tokens joined
\* by single spaces; wrapping that string again at the same width returns
\* the same lines; a token wider than max_width is on a line of its own;
\* a line break stands before a token exactly when appending it to the
\* non-empty current line would exceed max_width.
C27_WrapKeepsTokens ==
    (Wrapped /\ max_lines = None) =>
        /\ ~result.panic
        /\ Join(result.lines) = Join(Tokens)
        /\ LineTokens(result.lines, 1) = Tokens
        /\ \A k \in 1..Len(result.lines) :
               result.lines[k] = Join(split_whitespace(result.lines[k]))
        /\ pc = "reapplied" => second.lines = result.lines
        /\ \A k \in 1..Len(result.lines) :
               LET first == FirstTokenOf(result.lines, k)
                   last == first + Len(split_whitespace(result.lines[k])) - 1
               IN  \* an overlong token is alone on its line
                   /\ (\E i \in first..last : Width(Tokens[i]) > max_width)
                          => first = last
                   \* no break inside the line: each appended token fitted
                   /\ \A i \in (first + 1)..last :
                          Width(TokensJoined(first, i)) <= max_width
                   \* the break after the line: the next token did not fit
                   /\ k < Len(result.lines)
                          => Width(TokensJoined(first, last + 1)) > max_width

\* a text of three tokens wrapped without max_lines into two lines, the
\* first of two tokens, and wrapped again
C27_Witness ==
    /\ Wrapped /\ max_lines = None /\ pc = "reapplied"
    /\ Len(Tokens) = 3
    /\ Len(result.lines) = 2
    /\ Len(split_whitespace(result.lines[1])) = 2

====
